---- MODULE Spec2Model ----
(***************************************************************************)
(* State machine of the chat client in src/App.tsx over the IndexedDB      *)
(* store of src/unnamed/part_002 (./utils/db).                             *)
(*                                                                         *)
(* React semantics kept by the model:                                      *)
(*  - a handler is a closure over the state of the render in which it was  *)
(*    invoked; everything it reads after an await (chatsForClass,          *)
(*    activeChatId, selectedClass, ...) is that captured value, carried    *)
(*    here in the continuation record k;                                   *)
(*  - setX(value) overwrites the current state, setX(prev => ...) is       *)
(*    computed from the current state;                                     *)
(*  - the code between two awaits runs without interruption: one action.   *)
(* IndexedDB semantics kept by the model: the transactions on the one      *)
(* object store complete in the order they were created (dbq is a FIFO),   *)
(* and a promise continuation runs right after its request succeeds.       *)
(***************************************************************************)
EXTENDS Integers, Sequences, FiniteSets, TLC

\* ------------------------------------------------------------------ bounds
Classes == {6, 7}          \* the classes a run selects among (of 6..14)
MaxOps == 3                \* user operations that start asynchronous work
MaxChunks == 2             \* chunks of one streamed reply
MaxQuestions == 2          \* questions of one generated quiz
ChunkVals == {"a"}         \* text of a streamed chunk
Options == {0, 1}          \* answer indices offered by a question

\* ------------------------------------------------------------- null values
NoClass == 0               \* selectedClass === null
NoChat == 0                \* activeChatId === null
NoAnswer == -1             \* selectedAnswer === null, userAnswers[i] === null

\* ---------------------------------------------------------------- messages
UserMsg(t) == [role |-> "user", text |-> t]
ModelMsg(t) == [role |-> "model", text |-> t]
Placeholder == ModelMsg(<<>>)
AskText == <<"ask">>
ErrText == <<"Sorry, something went wrong.">>
GroundedText == <<"grounded">>
SummaryHeading == <<"**Chat Summary:**">>
SummaryFailText == <<"Sorry, I was unable to summarize the chat.">>
QuizAskText == <<"Start a quiz on:">>
QuizAckText == <<"Great! Let's test your knowledge. Starting the quiz now...">>
QuizFailText == <<"Sorry, I couldn't create a quiz for that topic.">>
NumTok(n) == <<"0", "1", "2", "3", "4">>[n + 1]
ScoreText(score, total) == <<"## Quiz Complete!", NumTok(score), NumTok(total)>>

VARIABLES
    dbReady,                \* setDbReady
    setup,                  \* the setup effect: "running", "ready", "alerted",
                            \* "hung", "failed"
    unhandled,              \* a handler's promise was rejected and nothing
                            \* caught it
    legacy,                 \* localStorage chatHistories
    legacyActiveIds,        \* localStorage activeChatIds is present
    selectedClass,          \* NoClass or a class
    chatsForClass,          \* sequence of StoredChat, the visible list
    activeChatId,           \* NoChat or a chat id
    isLoading,
    generatingTitleChatId,
    showQuizModal,
    quizQuestions,          \* sequence of correctAnswerIndex, one per question
    currentQuestionIndex,   \* zero-based
    userAnswers,            \* sequence of NoAnswer or an option
    selectedAnswer,
    isQuizModeActive,
    quizStage,              \* "question" or "results"
    quizScore,
    saved,                  \* localStorage activeChatId_<class>
    db,                     \* object store 'chats': id -> StoredChat
    dbq,                    \* IndexedDB transactions created and not complete
    net,                    \* fetches in flight (their continuations)
    timers,                 \* pending setTimeout callbacks of handleAnswerSelect
    now,                    \* Date.now(), as the number of ticks used
    ops,                    \* user operations started (bounded by MaxOps)
    titleReqs,              \* history: the title requests issued
    titleChecks             \* history: the outcomes of the sends after which
                            \* the condition of line 832 was evaluated

vars == <<dbReady, setup, unhandled, legacy, legacyActiveIds, selectedClass, chatsForClass, activeChatId, isLoading,
          generatingTitleChatId, showQuizModal, quizQuestions,
          currentQuestionIndex, userAnswers, selectedAnswer, isQuizModeActive,
          quizStage, quizScore, saved, db, dbq, net, timers, now, ops,
          titleReqs, titleChecks>>

setupVars == <<dbReady, setup, unhandled, legacy, legacyActiveIds>>

\* initDB has assigned the module's db (utils/db 27)
DbOpen == setup \in {"ready", "alerted", "hung"}

titleVars == <<titleReqs, titleChecks>>

quizVars == <<quizQuestions, currentQuestionIndex, userAnswers, selectedAnswer,
              quizStage, quizScore>>

\* ----------------------------------------------------------------- helpers
NoChatRec == [id |-> NoChat, classNum |-> NoClass, title |-> <<>>,
              messages |-> <<>>, createdAt |-> 0]

Has(chats, id) == \E i \in DOMAIN chats : chats[i].id = id

\* chats.find(c => c.id === id)
Find(chats, id) ==
    IF Has(chats, id)
    THEN chats[CHOOSE i \in DOMAIN chats :
                 chats[i].id = id /\ \A j \in DOMAIN chats : chats[j].id = id => i <= j]
    ELSE NoChatRec

\* chats.map(c => c.id === id ? chat : c)
MapReplace(chats, id, chat) ==
    [i \in DOMAIN chats |-> IF chats[i].id = id THEN chat ELSE chats[i]]

\* chats.filter(c => c.id !== id)
RECURSIVE FilterOut(_, _)
FilterOut(chats, id) ==
    IF chats = <<>> THEN <<>>
    ELSE IF Head(chats).id = id THEN FilterOut(Tail(chats), id)
    ELSE <<Head(chats)>> \o FilterOut(Tail(chats), id)

\* the continuation of an async handler: what its closure captured
Closure(kind, arg) ==
    [kind |-> kind, chats |-> chatsForClass, active |-> activeChatId,
     cls |-> selectedClass, arg |-> arg, acc |-> <<>>, gs |-> FALSE,
     search |-> FALSE, image |-> FALSE]

NoClosure ==
    [kind |-> "none", chats |-> <<>>, active |-> NoChat, cls |-> NoClass,
     arg |-> 0, acc |-> <<>>, gs |-> FALSE, search |-> FALSE, image |-> FALSE]

DbOp(op, chat, k) == [op |-> op, chat |-> chat, k |-> k]

\* the overlays of the page: the quiz setup dialog and the quiz dialog cover
\* the sidebar and the input area
QuizDialogShown == selectedClass # NoClass /\ isQuizModeActive
MainUI == ~showQuizModal /\ ~QuizDialogShown

\* --------------------------------------------------------------- the store
\* store.put(chat)
DbPut(store, chat) ==
    [i \in DOMAIN store \cup {chat.id} |-> IF i = chat.id THEN chat ELSE store[i]]

\* store.delete(id)
DbDelete(store, id) == [i \in DOMAIN store \ {id} |-> store[i]]

\* the ids of class classNum in the order of index classNum_createdAt
\* reversed by sort((a, b) => b.createdAt - a.createdAt)
RECURSIVE SortDesc(_, _)
SortDesc(store, ids) ==
    IF ids = {} THEN <<>>
    ELSE LET m == CHOOSE i \in ids : \A j \in ids : store[j].createdAt <= store[i].createdAt
         IN <<store[m]>> \o SortDesc(store, ids \ {m})

\* index.getAll(range) as it is, in the order of the index: createdAt
\* ascending
GetChatsInIndexOrder(store, classNum) ==
    LET sorted == SortDesc(store, {i \in DOMAIN store : store[i].classNum = classNum})
    IN [i \in DOMAIN sorted |-> sorted[Len(sorted) + 1 - i]]

\* getChatsForClass (utils/db 73-88): the records of the index whose classNum
\* is classNum, sorted by createdAt descending
GetChatsForClass(store, classNum) ==
    SortDesc(store, {i \in DOMAIN store : store[i].classNum = classNum})

\* ------------------------------------- migrateFromLocalStorage (utils/db 90)
\* Conversation ids are strings. The model names an id by a number: the id
\* written by Date.now().toString() by its value, and three more legacy ids by
\* the numbers below. IdText gives the string of an id.
IdZero == 90                \* the id "0"
IdMixed == 91               \* the id "2x"
IdWord == 92                \* the id "x"

Digits == <<"0", "1", "2", "3", "4", "5", "6", "7", "8", "9">>
IsDigit(ch) == \E i \in DOMAIN Digits : Digits[i] = ch
DigitVal(ch) == (CHOOSE i \in DOMAIN Digits : Digits[i] = ch) - 1

\* Number.prototype.toString of a non-negative integer
RECURSIVE Decimal(_)
Decimal(n) ==
    IF n < 10 THEN <<Digits[n + 1]>>
    ELSE Decimal(n \div 10) \o <<Digits[(n % 10) + 1]>>

IdText(id) ==
    CASE id = IdZero -> <<"0">>
      [] id = IdMixed -> <<"2", "x">>
      [] id = IdWord -> <<"x">>
      [] OTHER -> Decimal(id)

\* parseInt(text, 10) of a text without sign or leading blanks: the value of
\* the longest prefix of digits, NaN when there is none
NaN == -1
RECURSIVE ParseDigits(_, _)
ParseDigits(text, acc) ==
    IF text = <<>> \/ ~IsDigit(Head(text)) THEN acc
    ELSE ParseDigits(Tail(text), acc * 10 + DigitVal(Head(text)))

ParseInt(text) ==
    IF text = <<>> \/ ~IsDigit(Head(text)) THEN NaN ELSE ParseDigits(text, 0)

\* n || t: NaN and 0 are falsy
OrElse(n, t) == IF n = NaN \/ n = 0 THEN t ELSE n

\* a title property that is absent
Undefined == <<"undefined">>

\* the value of localStorage chatHistories: absent, a text JSON.parse
\* rejects, or an object, given as its entries in for-in order. An entry is
\* parsed[classKey][id]: an array of messages (fmt "old"), an object with
\* title and messages (fmt "new"), or null (fmt "null")
NoBlob == [kind |-> "none", entries |-> <<>>]
CorruptBlob == [kind |-> "corrupt", entries |-> <<>>]
JsonBlob(entries) == [kind |-> "json", entries |-> entries]
Entry(classKey, id, fmt, title) ==
    [classKey |-> classKey, id |-> id, fmt |-> fmt, title |-> title,
     messages |-> IF fmt = "null" THEN <<>>
                  ELSE <<UserMsg(AskText), ModelMsg(<<"a">>)>>]

\* newChat of lines 116-123, t being Date.now()
NewChatOfEntry(e, t) ==
    [id |-> e.id,
     classNum |-> ParseInt(e.classKey),
     title |-> IF e.fmt = "old" THEN <<>> ELSE e.title,
     messages |-> e.messages,
     createdAt |-> OrElse(ParseInt(IdText(e.id)), t)]

\* the loop of lines 111-127: the records handed to writeStore.add and whether
\* the loop threw (chatData.title of null)
RECURSIVE MigrationAdds(_, _)
MigrationAdds(entries, t) ==
    IF entries = <<>> THEN [adds |-> <<>>, threw |-> FALSE]
    ELSE IF Head(entries).fmt = "null" THEN [adds |-> <<>>, threw |-> TRUE]
    ELSE LET r == MigrationAdds(Tail(entries), t)
         IN [adds |-> <<NewChatOfEntry(Head(entries), t)>> \o r.adds,
             threw |-> r.threw]

\* an add whose key the transaction has already added fails (ConstraintError)
AddsConflict(adds) ==
    \E i, j \in DOMAIN adds : i # j /\ adds[i].id = adds[j].id

\* the write transaction committing its adds to an empty store
RECURSIVE CommitAdds(_, _)
CommitAdds(store, adds) ==
    IF adds = <<>> THEN store
    ELSE CommitAdds(DbPut(store, Head(adds)), Tail(adds))

\* what the storage may do: all requests succeed; the count request fails;
\* a request of the write transaction fails (error event, then abort); the
\* write transaction fails to commit (abort event only)
Outcomes == {"ok", "countError", "writeError", "writeAbort"}

MigrationResult(store, blob, activeIds, status, ticked) ==
    [store |-> store, legacy |-> blob, activeIds |-> activeIds,
     status |-> status, ticked |-> ticked]

\* migrateFromLocalStorage: the store and the legacy keys it leaves, and
\* whether its promise resolved, rejected or never settles ("hung")
Migrate(blob, store, activeIds, out, t) ==
    IF blob.kind = "none"
    THEN MigrationResult(store, blob, activeIds, "resolved", FALSE)
    ELSE IF blob.kind = "corrupt"      \* JSON.parse throws
    THEN MigrationResult(store, blob, activeIds, "rejected", FALSE)
    ELSE IF out = "countError"
    THEN MigrationResult(store, blob, activeIds, "resolved", FALSE)
    ELSE IF DOMAIN store # {}
    THEN MigrationResult(store, NoBlob, activeIds, "resolved", FALSE)
    ELSE LET r == MigrationAdds(blob.entries, t)
             failed == AddsConflict(r.adds) \/ out = "writeError"
             written == IF failed \/ out = "writeAbort" THEN store
                        ELSE CommitAdds(store, r.adds)
         IN IF r.threw      \* oncomplete and onerror were never assigned
            THEN MigrationResult(written, blob, activeIds, "hung", TRUE)
            ELSE IF failed
            THEN MigrationResult(store, blob, activeIds, "resolved", TRUE)
            ELSE IF out = "writeAbort"
            THEN MigrationResult(store, blob, activeIds, "hung", TRUE)
            ELSE MigrationResult(written, NoBlob, FALSE, "resolved", TRUE)

\* ------------------------------------------------------------------- Init
\* the state of App's first render (useState, 544-576) with nothing selected
InitState ==
    /\ dbReady = FALSE
    /\ setup = "running"
    /\ unhandled = FALSE
    /\ selectedClass = NoClass
    /\ chatsForClass = <<>>
    /\ activeChatId = NoChat
    /\ isLoading = FALSE
    /\ generatingTitleChatId = NoChat
    /\ showQuizModal = FALSE
    /\ quizQuestions = <<>>
    /\ currentQuestionIndex = 0
    /\ userAnswers = <<>>
    /\ selectedAnswer = NoAnswer
    /\ isQuizModeActive = FALSE
    /\ quizStage = "question"
    /\ quizScore = 0
    /\ dbq = <<>>
    /\ net = {}
    /\ timers = {}
    /\ ops = 0
    /\ titleReqs = <<>>
    /\ titleChecks = {}

\* a first visit: empty store, empty localStorage
Init ==
    /\ InitState
    /\ saved = [c \in Classes |-> NoChat]
    /\ legacy = NoBlob
    /\ legacyActiveIds = FALSE
    /\ db = <<>>
    /\ now = 0

\* a later visit: an earlier session selected class 6, had one exchange in
\* its first conversation and then opened a second one
StoredChats ==
    <<[id |-> 1, classNum |-> 6, title |-> <<>>,
       messages |-> <<UserMsg(AskText), ModelMsg(<<"a">>)>>, createdAt |-> 1],
      [id |-> 2, classNum |-> 6, title |-> <<>>, messages |-> <<>>,
       createdAt |-> 2]>>

InitStored ==
    /\ InitState
    /\ saved = [c \in Classes |-> IF c = 6 THEN 2 ELSE NoChat]
    /\ legacy = NoBlob
    /\ legacyActiveIds = FALSE
    /\ db = StoredChats
    /\ now = 2

\* the chatHistories values the first visit after the upgrade may find: what
\* the earlier versions wrote (arrays, then objects with a title), and values
\* they did not write
LegacyBlobs ==
    {CorruptBlob,
     JsonBlob(<<>>),
     JsonBlob(<<Entry(<<"6">>, 1, "old", <<>>)>>),
     JsonBlob(<<Entry(<<"6">>, 1, "new", <<"t">>), Entry(<<"7">>, 2, "old", <<>>)>>),
     JsonBlob(<<Entry(<<"6">>, IdZero, "old", <<>>)>>),
     JsonBlob(<<Entry(<<"6">>, IdMixed, "old", <<>>)>>),
     JsonBlob(<<Entry(<<"6">>, IdWord, "new", <<"t">>)>>),
     JsonBlob(<<Entry(<<"6">>, 1, "new", Undefined)>>),
     JsonBlob(<<Entry(<<"6">>, 1, "old", <<>>), Entry(<<"6">>, 2, "null", <<>>)>>),
     JsonBlob(<<Entry(<<"6">>, 1, "old", <<>>), Entry(<<"7">>, 1, "old", <<>>)>>)}

\* the first visit after the upgrade: legacy keys in localStorage, the store
\* empty or already holding conversations
InitLegacy ==
    /\ InitState
    /\ saved = [c \in Classes |-> NoChat]
    /\ legacy \in LegacyBlobs
    /\ legacyActiveIds = TRUE
    /\ db \in {<<>>, StoredChats}
    /\ now = 2

\* handleSelectChat remembering one conversation for all classes, under a key
\* without the class
SelectChatOneKey(cls, chatId) ==
    IF cls = NoClass
    THEN UNCHANGED <<isQuizModeActive, quizQuestions, activeChatId, saved>>
    ELSE /\ isQuizModeActive' = FALSE
         /\ quizQuestions' = <<>>
         /\ activeChatId' = chatId
         /\ saved' = [c \in Classes |-> chatId]

\* handleSelectChat without lines 888-889: the quiz is left as it is
SelectChatKeepsQuiz(cls, chatId) ==
    IF cls = NoClass
    THEN UNCHANGED <<isQuizModeActive, quizQuestions, activeChatId, saved>>
    ELSE /\ activeChatId' = chatId
         /\ saved' = [saved EXCEPT ![cls] = chatId]
         /\ UNCHANGED <<isQuizModeActive, quizQuestions>>

\* ------------------------------------------------- handleSelectChat (886)
\* the state it writes, for the class its closure captured
SelectChat(cls, chatId) ==
    IF cls = NoClass
    THEN UNCHANGED <<isQuizModeActive, quizQuestions, activeChatId, saved>>
    ELSE /\ isQuizModeActive' = FALSE
         /\ quizQuestions' = <<>>
         /\ activeChatId' = chatId
         /\ saved' = [saved EXCEPT ![cls] = chatId]

\* handleNewChat with classNum: selectedClass of the current render in place
\* of targetClass
NewChatDataOfSelected(targetClass, t) ==
    [id |-> t, classNum |-> selectedClass, title |-> <<>>, messages |-> <<>>,
     createdAt |-> t]

\* what handleNewChat hands to addChat: id Date.now().toString(), stamped
\* createdAt Date.now() by addChat in the same tick
NewChatData(targetClass, t) ==
    [id |-> t, classNum |-> targetClass, title |-> <<>>, messages |-> <<>>,
     createdAt |-> t]

\* ------------------------------------------------------ setup effect (630)
\* initDB has succeeded and migrateFromLocalStorage runs to its end: when it
\* resolves, setDbReady(true) re-runs the loadChats effect; when it rejects,
\* the catch block alerts; when it never settles, setup stays at its await
SetupDone ==
    /\ setup = "running"
    /\ \E out \in Outcomes :
          LET m == Migrate(legacy, db, legacyActiveIds, out, now + 1)
          IN /\ db' = m.store
             /\ legacy' = m.legacy
             /\ legacyActiveIds' = m.activeIds
             /\ now' = IF m.ticked THEN now + 1 ELSE now
             /\ dbReady' = (m.status = "resolved")
             /\ setup' = CASE m.status = "resolved" -> "ready"
                           [] m.status = "rejected" -> "alerted"
                           [] OTHER -> "hung"
             /\ dbq' = IF m.status = "resolved" /\ selectedClass # NoClass
                       THEN Append(dbq, DbOp("get", NoChatRec, Closure("load", 0)))
                       ELSE dbq
    /\ UNCHANGED <<unhandled, selectedClass, chatsForClass, activeChatId,
                   isLoading, generatingTitleChatId, showQuizModal, quizVars,
                   isQuizModeActive, saved, net, timers, ops, titleVars>>

\* initDB rejects (request.onerror, utils/db 31-34): the catch block of setup
\* alerts once (636-638); dbReady stays false and db stays unassigned
SetupFailed ==
    /\ setup = "running"
    /\ setup' = "failed"
    /\ UNCHANGED <<dbReady, unhandled, legacy, legacyActiveIds, selectedClass,
                   chatsForClass, activeChatId, isLoading,
                   generatingTitleChatId, showQuizModal, quizVars,
                   isQuizModeActive, saved, db, dbq, net, timers, now, ops,
                   titleVars>>

\* the page is loaded again: React state starts over, localStorage and the
\* store are kept (selectedClass is read back from localStorage)
Reload ==
    /\ setup # "running"
    /\ dbq = <<>> /\ net = {} /\ timers = {}
    /\ ops < MaxOps
    /\ ops' = ops + 1
    /\ dbReady' = FALSE
    /\ setup' = "running"
    /\ unhandled' = FALSE
    /\ chatsForClass' = <<>>
    /\ activeChatId' = NoChat
    /\ isLoading' = FALSE
    /\ generatingTitleChatId' = NoChat
    /\ showQuizModal' = FALSE
    /\ quizQuestions' = <<>>
    /\ currentQuestionIndex' = 0
    /\ userAnswers' = <<>>
    /\ selectedAnswer' = NoAnswer
    /\ isQuizModeActive' = FALSE
    /\ quizStage' = "question"
    /\ quizScore' = 0
    /\ UNCHANGED <<legacy, legacyActiveIds, selectedClass, saved, db, dbq, net,
                   timers, now, titleVars>>

\* InitialClassSelector onSelectClass={setSelectedClass}, then the effect of
\* line 644 for the new render
SelectClass(n) ==
    /\ selectedClass = NoClass
    /\ ops < MaxOps
    /\ ops' = ops + 1
    /\ selectedClass' = n
    /\ IF dbReady
       THEN /\ dbq' = Append(dbq, DbOp("get", NoChatRec,
                                   [Closure("load", 0) EXCEPT !.cls = n]))
            /\ UNCHANGED <<chatsForClass, activeChatId>>
       ELSE /\ chatsForClass' = <<>>
            /\ activeChatId' = NoChat
            /\ UNCHANGED dbq
    /\ UNCHANGED <<setupVars, isLoading, generatingTitleChatId, showQuizModal,
                   quizVars, isQuizModeActive, saved, db, net, timers, now,
                   titleVars>>

\* the Change Class button (1514), then the effect of line 644
ChangeClass ==
    /\ MainUI
    /\ selectedClass # NoClass
    /\ selectedClass' = NoClass
    /\ chatsForClass' = <<>>
    /\ activeChatId' = NoChat
    /\ UNCHANGED <<setupVars, isLoading, generatingTitleChatId, showQuizModal,
                   quizVars, isQuizModeActive, saved, db, dbq, net, timers,
                   now, ops, titleVars>>

\* the conversation made active whatever localStorage remembers
InitialActiveIdOfFirst(chats, savedActiveId) == chats[1].id

\* lines 654-658, for a list that is not empty: the remembered id when it is
\* the id of a listed conversation, else the first of the list
InitialActiveId(chats, savedActiveId) ==
    IF savedActiveId # NoChat /\ Has(chats, savedActiveId)
    THEN savedActiveId
    ELSE chats[1].id

\* loadChats (651) resumes with the result of getChatsForClass
LoadChatsDone ==
    /\ dbq # <<>>
    /\ Head(dbq).op = "get"
    /\ LET k == Head(dbq).k
           chats == GetChatsForClass(db, k.cls)
           savedActiveId == saved[k.cls]
       IN /\ chatsForClass' = chats
          /\ IF Len(chats) > 0
             THEN /\ activeChatId' = InitialActiveId(chats, savedActiveId)
                  /\ dbq' = Tail(dbq)
                  /\ UNCHANGED now
             ELSE \* handleNewChat(selectedClass) up to its await addChat
                  /\ now' = now + 1
                  /\ dbq' = Append(Tail(dbq),
                                   DbOp("add", NewChatData(k.cls, now + 1), k))
                  /\ UNCHANGED activeChatId
    /\ UNCHANGED <<setupVars, selectedClass, isLoading, generatingTitleChatId,
                   showQuizModal, quizVars, isQuizModeActive, saved, db, net,
                   timers, ops, titleVars>>

\* the New Chat button (1483) while db is unassigned: db.transaction throws
\* in addChat (utils/db 40), the promise of handleNewChat is rejected and the
\* click handler does not catch it; nothing is written
HandleNewChatNoDb ==
    /\ MainUI
    /\ selectedClass # NoClass
    /\ ~DbOpen
    /\ unhandled' = TRUE
    /\ UNCHANGED <<dbReady, setup, legacy, legacyActiveIds, selectedClass,
                   chatsForClass, activeChatId, isLoading,
                   generatingTitleChatId, showQuizModal, quizVars,
                   isQuizModeActive, saved, db, dbq, net, timers, now, ops,
                   titleVars>>

\* the New Chat button (1483): handleNewChat() up to its await addChat
HandleNewChat ==
    /\ MainUI
    /\ selectedClass # NoClass
    /\ DbOpen
    /\ ops < MaxOps
    /\ ops' = ops + 1
    /\ now' = now + 1
    /\ dbq' = Append(dbq, DbOp("add", NewChatData(selectedClass, now + 1),
                               Closure("new", 0)))
    /\ UNCHANGED <<setupVars, selectedClass, chatsForClass, activeChatId,
                   isLoading, generatingTitleChatId, showQuizModal, quizVars,
                   isQuizModeActive, saved, db, net, timers, titleVars>>

\* handleNewChat (881-883) resumes after addChat
NewChatDone ==
    /\ dbq # <<>>
    /\ Head(dbq).op = "add"
    /\ LET newChat == Head(dbq).chat
           k == Head(dbq).k
       IN /\ db' = DbPut(db, newChat)
          /\ chatsForClass' = <<newChat>> \o chatsForClass
          /\ SelectChat(k.cls, newChat.id)
    /\ dbq' = Tail(dbq)
    /\ UNCHANGED <<setupVars, selectedClass, isLoading, generatingTitleChatId,
                   showQuizModal, currentQuestionIndex, userAnswers,
                   selectedAnswer, quizStage, quizScore, net, timers, now,
                   ops, titleVars>>

\* a click on a history item (1488)
HandleSelectChat(chatId) ==
    /\ MainUI
    /\ selectedClass # NoClass
    /\ Has(chatsForClass, chatId)
    /\ SelectChat(selectedClass, chatId)
    /\ UNCHANGED <<setupVars, selectedClass, chatsForClass, isLoading,
                   generatingTitleChatId, showQuizModal, currentQuestionIndex,
                   userAnswers, selectedAnswer, quizStage, quizScore, db, dbq,
                   net, timers, now, ops, titleVars>>

\* the delete button of a history item (1493): handleDeleteChat up to its
\* await deleteChat
HandleDeleteChat(chatIdToDelete) ==
    /\ MainUI
    /\ selectedClass # NoClass
    /\ DbOpen
    /\ Has(chatsForClass, chatIdToDelete)
    /\ ops < MaxOps
    /\ ops' = ops + 1
    /\ dbq' = Append(dbq, DbOp("del", NoChatRec, Closure("delete", chatIdToDelete)))
    /\ UNCHANGED <<setupVars, selectedClass, chatsForClass, activeChatId,
                   isLoading, generatingTitleChatId, showQuizModal, quizVars,
                   isQuizModeActive, saved, db, net, timers, now, titleVars>>

\* chatsForClass.filter(c => c.id !== chatIdToDelete), of the closure's list
RemainingChats(k) == FilterOut(k.chats, k.arg)

\* handleDeleteChat (898-907) resumes after deleteChat
DeleteChatDone ==
    /\ dbq # <<>>
    /\ Head(dbq).op = "del"
    /\ LET k == Head(dbq).k
           remainingChats == RemainingChats(k)
       IN /\ db' = DbDelete(db, k.arg)
          /\ chatsForClass' = remainingChats
          /\ IF k.active = k.arg
             THEN IF Len(remainingChats) > 0
                  THEN /\ SelectChat(k.cls, remainingChats[1].id)
                       /\ dbq' = Tail(dbq)
                       /\ UNCHANGED now
                  ELSE \* handleNewChat() up to its await addChat
                       /\ now' = now + 1
                       /\ dbq' = Append(Tail(dbq),
                                        DbOp("add", NewChatData(k.cls, now + 1), k))
                       /\ UNCHANGED <<isQuizModeActive, quizQuestions,
                                      activeChatId, saved>>
             ELSE /\ dbq' = Tail(dbq)
                  /\ UNCHANGED <<now, isQuizModeActive, quizQuestions,
                                 activeChatId, saved>>
    /\ UNCHANGED <<setupVars, selectedClass, isLoading, generatingTitleChatId,
                   showQuizModal, currentQuestionIndex, userAnswers,
                   selectedAnswer, quizStage, quizScore, net, timers, ops,
                   titleVars>>

\* an updateChat nobody awaits (updateLastMessage 854, addNewMessage of the
\* results message) completes
PutDone ==
    /\ dbq # <<>>
    /\ Head(dbq).op = "put"
    /\ Head(dbq).k.kind = "none"
    /\ db' = DbPut(db, Head(dbq).chat)
    /\ dbq' = Tail(dbq)
    /\ UNCHANGED <<setupVars, selectedClass, chatsForClass, activeChatId,
                   isLoading, generatingTitleChatId, showQuizModal, quizVars,
                   isQuizModeActive, saved, net, timers, now, ops, titleVars>>

\* updateChat rejects (request.onerror, utils/db 58): nothing is stored. The
\* handler awaiting it outside any try block (775, 867 called from 916, 987,
\* 988) rejects at that await and runs no further
PutFailed ==
    /\ dbq # <<>>
    /\ Head(dbq).op = "put"
    /\ dbq' = Tail(dbq)
    /\ UNCHANGED <<setupVars, selectedClass, chatsForClass, activeChatId,
                   isLoading, generatingTitleChatId, showQuizModal, quizVars,
                   isQuizModeActive, saved, db, net, timers, now, ops, titleVars>>

\* ------------------------------------------------ updateLastMessage (842)
\* newMessages[newMessages.length - 1] = newMessage; on an empty list the
\* assignment sets the property -1 and the list stays empty
SetLast(messages, newMessage) ==
    IF messages = <<>> THEN messages
    ELSE [messages EXCEPT ![Len(messages)] = newMessage]

\* the updater handed to setChatsForClass, for the activeChatId the closure
\* captured, applied to the current list
UpdateLastMessage(prevChats, chatId, newMessage) ==
    IF chatId = NoChat \/ ~Has(prevChats, chatId) THEN prevChats
    ELSE LET chatToUpdate == Find(prevChats, chatId)
         IN MapReplace(prevChats, chatId,
                       [chatToUpdate EXCEPT !.messages = SetLast(@, newMessage)])

\* the updateChat(updatedChat) the updater issues when saveToDb
UpdateLastSave(prevChats, chatId, newMessage, saveToDb) ==
    IF saveToDb /\ chatId # NoChat /\ Has(prevChats, chatId)
    THEN <<DbOp("put", Find(UpdateLastMessage(prevChats, chatId, newMessage), chatId),
                NoClosure)>>
    ELSE <<>>

\* ------------------------------------------------ handleSendMessage (762)
\* the guard of line 763-766 for a non-empty message, and the input area or
\* the welcome screen being shown
SendAccepted ==
    /\ ~isLoading
    /\ selectedClass # NoClass
    /\ activeChatId # NoChat
    /\ Has(chatsForClass, activeChatId)

\* the flag sent whatever is attached
UseGoogleSearchOfToggle(searchOn, img) == searchOn

\* useGoogleSearch (789): the search toggle is on and no image is attached
UseGoogleSearch(searchOn, img) == searchOn /\ ~img

\* lines 768-775: the user message and the placeholder are appended to the
\* conversation and written; the handler awaits updateChat. searchOn is
\* isGoogleSearchEnabled and img says that an image is attached
HandleSendMessage(searchOn, img) ==
    /\ MainUI
    /\ SendAccepted
    /\ DbOpen
    /\ ops < MaxOps
    /\ ops' = ops + 1
    /\ LET currentChat == Find(chatsForClass, activeChatId)
           updatedChat == [currentChat EXCEPT
                             !.messages = @ \o <<UserMsg(AskText), Placeholder>>]
       IN /\ chatsForClass' = MapReplace(chatsForClass, activeChatId, updatedChat)
          /\ dbq' = Append(dbq, DbOp("put", updatedChat,
                                     [Closure("send", 0) EXCEPT
                                         !.gs = UseGoogleSearch(searchOn, img),
                                         !.search = searchOn,
                                         !.image = img]))
    /\ UNCHANGED <<setupVars, selectedClass, activeChatId, isLoading,
                   generatingTitleChatId, showQuizModal, quizVars,
                   isQuizModeActive, saved, db, net, timers, now, titleVars>>

\* historyForApi (783-786) of the request of closure k: currentChat.messages
\* mapped to their role and text
HistoryForApi(k) ==
    LET currentChat == Find(k.chats, k.active)
    IN [i \in DOMAIN currentChat.messages |->
          [role |-> currentChat.messages[i].role,
           text |-> currentChat.messages[i].text]]

\* the body of the request to /api/chat (794-800)
ChatRequest(k) ==
    [history |-> HistoryForApi(k), image |-> k.image,
     isGoogleSearchEnabled |-> k.gs]

\* the handler of /api/chat answers with one JSON object (chat.ts 17-28),
\* else with a stream
AnswersJson(req) == req.isGoogleSearchEnabled /\ ~req.image

\* lines 777-801: updateChat has resolved; setIsLoading(true) and the fetch
SendPutDone ==
    /\ dbq # <<>>
    /\ Head(dbq).op = "put"
    /\ Head(dbq).k.kind = "send"
    /\ db' = DbPut(db, Head(dbq).chat)
    /\ dbq' = Tail(dbq)
    /\ isLoading' = TRUE
    /\ net' = net \cup {Head(dbq).k}
    /\ UNCHANGED <<setupVars, selectedClass, chatsForClass, activeChatId,
                   generatingTitleChatId, showQuizModal, quizVars,
                   isQuizModeActive, saved, timers, now, ops, titleVars>>

\* the finally block asking for a title after every send of a selected class
TitleQualifiesAlways(k) == k.cls # NoClass

\* the condition of lines 832-835 under which generateTitleForChat is called:
\* currentChat and finalChatState are both read from the closure's list
TitleQualifies(k) ==
    LET currentChat == Find(k.chats, k.active)
        finalChatState == Find(k.chats, k.active)
    IN /\ Len(currentChat.messages) = 0
       /\ k.cls # NoClass
       /\ Has(k.chats, k.active)
       /\ Len(finalChatState.messages) = 2

\* what a title request finds: the conversation as it is when the request is
\* issued (the visible list, else the store)
TitleRequest(chats, chatId) ==
    LET c == IF Has(chats, chatId) THEN Find(chats, chatId)
             ELSE IF chatId \in DOMAIN db THEN db[chatId] ELSE NoChatRec
    IN [id |-> chatId, n |-> Len(c.messages), titled |-> c.title # <<>>,
        inflight |-> generatingTitleChatId = chatId]

\* the last updateLastMessage of a send (810, 824 or 829) and the finally
\* block (831-838), which runs after the try block and after the catch block
\* alike: outcome is "ok" or "failed"
SendConclude(k, newMessage, outcome) ==
    /\ titleChecks' = titleChecks \cup {outcome}
    /\ chatsForClass' = UpdateLastMessage(chatsForClass, k.active, newMessage)
    /\ dbq' = dbq \o UpdateLastSave(chatsForClass, k.active, newMessage, TRUE)
    /\ net' = net \ {k}
    /\ isLoading' = FALSE
    /\ IF TitleQualifies(k)
       THEN /\ generatingTitleChatId' = k.active
            /\ titleReqs' = Append(titleReqs,
                                   TitleRequest(chatsForClass', k.active))
       ELSE UNCHANGED <<generatingTitleChatId, titleReqs>>
    /\ UNCHANGED <<setupVars, selectedClass, activeChatId, showQuizModal,
                   quizVars, isQuizModeActive, saved, db, timers, now, ops>>

\* the fetch rejects, the status is not ok, the body is missing or a read
\* fails: the catch block (827-829)
SendFailed(k) ==
    /\ k \in net /\ k.kind = "send"
    /\ SendConclude(k, ModelMsg(ErrText), "failed")

\* search mode (808-810): one JSON object
SendGrounded(k) ==
    /\ k \in net /\ k.kind = "send" /\ k.gs
    /\ AnswersJson(ChatRequest(k))
    /\ SendConclude(k, ModelMsg(GroundedText), "ok")

\* streaming mode (819-822): reader.read() yields a chunk
SendChunk(k, c) ==
    /\ k \in net /\ k.kind = "send" /\ ~k.gs
    /\ ~AnswersJson(ChatRequest(k))
    /\ Len(k.acc) < MaxChunks
    /\ LET fullResponse == k.acc \o <<c>>
       IN /\ chatsForClass' = UpdateLastMessage(chatsForClass, k.active,
                                                ModelMsg(fullResponse))
          /\ dbq' = dbq \o UpdateLastSave(chatsForClass, k.active,
                                          ModelMsg(fullResponse), FALSE)
          /\ net' = (net \ {k}) \cup {[k EXCEPT !.acc = fullResponse]}
    /\ UNCHANGED <<setupVars, selectedClass, activeChatId, isLoading,
                   generatingTitleChatId, showQuizModal, quizVars,
                   isQuizModeActive, saved, db, timers, now, ops, titleVars>>

\* streaming mode (820, 824): reader.read() yields done
SendStreamEnd(k) ==
    /\ k \in net /\ k.kind = "send" /\ ~k.gs
    /\ ~AnswersJson(ChatRequest(k))
    /\ SendConclude(k, ModelMsg(k.acc), "ok")

\* ------------------------------------------- generateTitleForChat (735)
\* the condition of lines 832-835 without the test of line 835, which cannot
\* hold together with the test of line 832 (TitleQualifies): the send was the
\* first exchange of a conversation of the captured list
TitleQualifiesFirstExchange(k) ==
    /\ Len(Find(k.chats, k.active).messages) = 0
    /\ k.cls # NoClass
    /\ Has(k.chats, k.active)

\* a send ends with a reply and its finally block calls generateTitleForChat
\* (836), a function of the render of the send: lines 736-743, up to the
\* fetch of /api/title
SendConcludeTitled(k) ==
    /\ k \in net /\ k.kind = "send"
    /\ TitleQualifiesFirstExchange(k)
    /\ LET newMessage == IF k.gs THEN ModelMsg(GroundedText) ELSE ModelMsg(k.acc)
       IN /\ chatsForClass' = UpdateLastMessage(chatsForClass, k.active, newMessage)
          /\ dbq' = dbq \o UpdateLastSave(chatsForClass, k.active, newMessage, TRUE)
    /\ net' = (net \ {k}) \cup {[k EXCEPT !.kind = "title"]}
    /\ isLoading' = FALSE
    /\ generatingTitleChatId' = k.active
    /\ titleReqs' = Append(titleReqs, TitleRequest(chatsForClass', k.active))
    /\ titleChecks' = titleChecks \cup {"ok"}
    /\ UNCHANGED <<setupVars, selectedClass, activeChatId, showQuizModal,
                   quizVars, isQuizModeActive, saved, db, timers, now, ops>>

\* what /api/title answers with status 200 (title.ts 40-42): the text of the
\* model without quotes, trimmed, which may be empty
Titles == {<<>>, <<"t">>}

\* { ...chatToUpdate, title } (749), chatToUpdate found in the captured list
TitledChat(k, title) == [Find(k.chats, k.active) EXCEPT !.title = title]

\* lines 744-750 and 757-759: the response of /api/title arrives; with a
\* title and the conversation in the captured list, updateChat is awaited,
\* else the finally block clears the flag (a status that is not ok acts as an
\* empty title does)
TitleReply(k, title) ==
    /\ k \in net /\ k.kind = "title"
    /\ net' = net \ {k}
    /\ IF title # <<>> /\ Has(k.chats, k.active)
       THEN /\ dbq' = Append(dbq, DbOp("put", TitledChat(k, title), k))
            /\ UNCHANGED generatingTitleChatId
       ELSE /\ generatingTitleChatId' = NoChat
            /\ UNCHANGED dbq
    /\ UNCHANGED <<setupVars, selectedClass, chatsForClass, activeChatId,
                   isLoading, showQuizModal, quizVars, isQuizModeActive, saved,
                   db, timers, now, ops, titleVars>>

\* lines 751 and 757-759: updateChat has resolved; the titled copy
\* replaces the conversation in the current list and the flag is cleared
TitlePutDone ==
    /\ dbq # <<>>
    /\ Head(dbq).op = "put"
    /\ Head(dbq).k.kind = "title"
    /\ LET updatedChat == Head(dbq).chat
       IN /\ db' = DbPut(db, updatedChat)
          /\ chatsForClass' = MapReplace(chatsForClass, updatedChat.id, updatedChat)
    /\ dbq' = Tail(dbq)
    /\ generatingTitleChatId' = NoChat
    /\ UNCHANGED <<setupVars, selectedClass, activeChatId, isLoading,
                   showQuizModal, quizVars, isQuizModeActive, saved, net,
                   timers, now, ops, titleVars>>

\* ---------------------------------------------------- addNewMessage (861)
\* the handler's closure k decides the conversation and the list that is
\* extended; the result replaces that conversation in the current list
AddNewMessageApplies(k) == k.active # NoChat /\ Has(k.chats, k.active)

AddedChat(k, newMessage) ==
    LET chatToUpdate == Find(k.chats, k.active)
    IN [chatToUpdate EXCEPT !.messages = Append(@, newMessage)]

AddNewMessage(prevChats, k, newMessage) ==
    IF AddNewMessageApplies(k)
    THEN MapReplace(prevChats, k.active, AddedChat(k, newMessage))
    ELSE prevChats

\* ----------------------------------------------- handleSummarizeChat (910)
SummarizeAccepted ==
    /\ Has(chatsForClass, activeChatId)
    /\ Len(Find(chatsForClass, activeChatId).messages) >= 2
    /\ ~isLoading

\* lines 911-916, up to the await inside addNewMessage
HandleSummarizeChat ==
    /\ MainUI
    /\ SummarizeAccepted
    /\ DbOpen
    /\ ops < MaxOps
    /\ ops' = ops + 1
    /\ isLoading' = TRUE
    /\ LET k == Closure("summ", 0)
       IN /\ chatsForClass' = AddNewMessage(chatsForClass, k, Placeholder)
          /\ dbq' = Append(dbq, DbOp("put", AddedChat(k, Placeholder), k))
    /\ UNCHANGED <<setupVars, selectedClass, activeChatId, generatingTitleChatId,
                   showQuizModal, quizVars, isQuizModeActive, saved, db, net,
                   timers, now, titleVars>>

\* the placeholder is stored; the fetch of /api/summarize (919)
SummPutDone ==
    /\ dbq # <<>>
    /\ Head(dbq).op = "put"
    /\ Head(dbq).k.kind = "summ"
    /\ db' = DbPut(db, Head(dbq).chat)
    /\ dbq' = Tail(dbq)
    /\ net' = net \cup {Head(dbq).k}
    /\ UNCHANGED <<setupVars, selectedClass, chatsForClass, activeChatId,
                   isLoading, generatingTitleChatId, showQuizModal, quizVars,
                   isQuizModeActive, saved, timers, now, ops, titleVars>>

\* the updateLastMessage of lines 928 or 931 and the finally block
SummConclude(k, newMessage) ==
    /\ chatsForClass' = UpdateLastMessage(chatsForClass, k.active, newMessage)
    /\ dbq' = dbq \o UpdateLastSave(chatsForClass, k.active, newMessage, TRUE)
    /\ net' = net \ {k}
    /\ isLoading' = FALSE
    /\ UNCHANGED <<setupVars, selectedClass, activeChatId, generatingTitleChatId,
                   showQuizModal, quizVars, isQuizModeActive, saved, db,
                   timers, now, ops, titleVars>>

\* what /api/summarize answers: a status that is not ok, or status 200 with
\* the body the handler streamed, the summary as text/plain; the text of the
\* summary may itself be the text of a JSON object
SummaryProse == <<"s">>
SummaryJson == <<"{", "summary", ":", "s", "}">>
OtherJson == <<"{", "text", ":", "s", "}">>
SummResponses ==
    {[ok |-> FALSE, body |-> <<>>],
     [ok |-> TRUE, body |-> SummaryProse],
     [ok |-> TRUE, body |-> SummaryJson],
     [ok |-> TRUE, body |-> OtherJson]}

\* response.json(): JSON.parse of the body accepts the text of an object and
\* throws on prose
IsJsonObject(body) ==
    /\ Len(body) >= 2
    /\ body[1] = "{"
    /\ body[Len(body)] = "}"

\* data[name] of the parsed object: the value, undefined when there is none
JsonField(body, name) ==
    IF \E i \in 2..(Len(body) - 3) : body[i] = name /\ body[i + 1] = ":"
    THEN <<body[(CHOOSE i \in 2..(Len(body) - 3) :
                    body[i] = name /\ body[i + 1] = ":") + 2]>>
    ELSE Undefined

\* the message of lines 925-931 for a response
SummMessage(r) ==
    IF ~r.ok \/ ~IsJsonObject(r.body)
    THEN ModelMsg(SummaryFailText)
    ELSE ModelMsg(SummaryHeading \o JsonField(r.body, "summary"))

\* handleSummarizeChat resumes with the response of its fetch
SummReply(k, r) ==
    /\ k \in net /\ k.kind = "summ"
    /\ SummConclude(k, SummMessage(r))

\* ---------------------------------------------------------- the quiz (980)
\* the Start Quiz button of the sidebar (1505)
OpenQuizModal ==
    /\ MainUI
    /\ selectedClass # NoClass
    /\ ~isLoading
    /\ showQuizModal' = TRUE
    /\ UNCHANGED <<setupVars, selectedClass, chatsForClass, activeChatId,
                   isLoading, generatingTitleChatId, quizVars,
                   isQuizModeActive, saved, db, dbq, net, timers, now, ops,
                   titleVars>>

\* the Cancel button of the quiz setup dialog (1463)
CancelQuizModal ==
    /\ showQuizModal
    /\ showQuizModal' = FALSE
    /\ UNCHANGED <<setupVars, selectedClass, chatsForClass, activeChatId,
                   isLoading, generatingTitleChatId, quizVars,
                   isQuizModeActive, saved, db, dbq, net, timers, now, ops,
                   titleVars>>

\* the guard of line 982, for a topic that is typed in
StartQuizAccepted == selectedClass # NoClass

\* handleStartQuiz 982-987: up to the await inside the first addNewMessage,
\* or up to the fetch when addNewMessage returns at once (no conversation is
\* active: the store is not touched, open or not)
HandleStartQuiz ==
    /\ showQuizModal
    /\ StartQuizAccepted
    /\ ops < MaxOps
    /\ ops' = ops + 1
    /\ isLoading' = TRUE
    /\ showQuizModal' = FALSE
    /\ LET k == Closure("quiz", 1)
       IN IF AddNewMessageApplies(k)
          THEN /\ chatsForClass' = AddNewMessage(chatsForClass, k, UserMsg(QuizAskText))
               /\ dbq' = Append(dbq, DbOp("put", AddedChat(k, UserMsg(QuizAskText)), k))
               /\ UNCHANGED net
          ELSE /\ net' = net \cup {k}
               /\ UNCHANGED <<chatsForClass, dbq>>
    /\ UNCHANGED <<setupVars, selectedClass, activeChatId, generatingTitleChatId,
                   quizVars, isQuizModeActive, saved, db, timers, now,
                   titleVars>>

\* line 988: the request message is stored; the second addNewMessage, of the
\* same closure, up to its await
QuizPut1Done ==
    /\ dbq # <<>>
    /\ Head(dbq).op = "put"
    /\ Head(dbq).k.kind = "quiz"
    /\ Head(dbq).k.arg = 1
    /\ LET k == Head(dbq).k
       IN /\ db' = DbPut(db, Head(dbq).chat)
          /\ chatsForClass' = AddNewMessage(chatsForClass, k, Placeholder)
          /\ dbq' = Append(Tail(dbq), DbOp("put", AddedChat(k, Placeholder),
                                           [k EXCEPT !.arg = 2]))
    /\ UNCHANGED <<setupVars, selectedClass, activeChatId, isLoading,
                   generatingTitleChatId, showQuizModal, quizVars,
                   isQuizModeActive, saved, net, timers, now, ops, titleVars>>

\* the placeholder is stored; the fetch of /api/quiz (991)
QuizPut2Done ==
    /\ dbq # <<>>
    /\ Head(dbq).op = "put"
    /\ Head(dbq).k.kind = "quiz"
    /\ Head(dbq).k.arg = 2
    /\ db' = DbPut(db, Head(dbq).chat)
    /\ dbq' = Tail(dbq)
    /\ net' = net \cup {Head(dbq).k}
    /\ UNCHANGED <<setupVars, selectedClass, chatsForClass, activeChatId,
                   isLoading, generatingTitleChatId, showQuizModal, quizVars,
                   isQuizModeActive, saved, timers, now, ops, titleVars>>

\* the quizzes a response can carry: the correctAnswerIndex of each question
RECURSIVE SeqsUpTo(_, _)
SeqsUpTo(S, n) ==
    IF n = 0 THEN {<<>>}
    ELSE LET shorter == SeqsUpTo(S, n - 1)
         IN shorter \cup {Append(q, x) : q \in {r \in shorter : Len(r) = n - 1}, x \in S}

Quizzes == SeqsUpTo(Options, MaxQuestions) \ {<<>>}

\* a question whose correctAnswerIndex is not the index of an option, and the
\* values of data.quiz in a response of status 200: JSON.parse(response.text)
\* is sent on as it is (src/api/quiz.ts 60-62)
BadIndex == 7
QuizResponses == Quizzes \cup {<<>>, <<BadIndex>>}

\* the test of line 1008 passes
QuizAccepted(quiz) == quiz # <<>>

\* lines 1007-1018 and the finally block: a response with questions
QuizOk(k, quiz) ==
    /\ k \in net /\ k.kind = "quiz"
    /\ QuizAccepted(quiz)
    /\ chatsForClass' = UpdateLastMessage(chatsForClass, k.active, ModelMsg(QuizAckText))
    /\ dbq' = dbq \o UpdateLastSave(chatsForClass, k.active, ModelMsg(QuizAckText), TRUE)
    /\ net' = net \ {k}
    /\ quizQuestions' = quiz
    /\ userAnswers' = [i \in 1..Len(quiz) |-> NoAnswer]
    /\ currentQuestionIndex' = 0
    /\ selectedAnswer' = NoAnswer
    /\ quizStage' = "question"
    /\ isQuizModeActive' = TRUE
    /\ isLoading' = FALSE
    /\ UNCHANGED <<setupVars, selectedClass, activeChatId, generatingTitleChatId,
                   showQuizModal, quizScore, saved, db, timers, now, ops,
                   titleVars>>

\* lines 1002-1010, 1020-1026: a failed request or a response without
\* questions
QuizFailed(k) ==
    /\ k \in net /\ k.kind = "quiz"
    /\ chatsForClass' = UpdateLastMessage(chatsForClass, k.active, ModelMsg(QuizFailText))
    /\ dbq' = dbq \o UpdateLastSave(chatsForClass, k.active, ModelMsg(QuizFailText), TRUE)
    /\ net' = net \ {k}
    /\ isLoading' = FALSE
    /\ UNCHANGED <<setupVars, selectedClass, activeChatId, generatingTitleChatId,
                   showQuizModal, quizVars, isQuizModeActive, saved, db,
                   timers, now, ops, titleVars>>

\* handleStartQuiz resumes with a response of status 200 carrying data.quiz
QuizReply(k, quiz) ==
    IF QuizAccepted(quiz) THEN QuizOk(k, quiz) ELSE QuizFailed(k)

\* newAnswers[currentQuestionIndex] = selectedIndex on a copy of userAnswers
SetAnswer(answers, index, selectedIndex) ==
    [i \in 1..(IF index + 1 > Len(answers) THEN index + 1 ELSE Len(answers)) |->
        IF i = index + 1 THEN selectedIndex
        ELSE IF i <= Len(answers) THEN answers[i] ELSE NoAnswer]

\* a click on an option of QuizView (420), enabled while hasAnswered is false
HandleAnswerSelect(selectedIndex) ==
    /\ QuizDialogShown
    /\ ~showQuizModal
    /\ quizStage = "question"
    /\ currentQuestionIndex < Len(quizQuestions)
    /\ selectedAnswer = NoAnswer
    /\ selectedAnswer' = selectedIndex
    /\ LET newAnswers == SetAnswer(userAnswers, currentQuestionIndex, selectedIndex)
       IN /\ userAnswers' = newAnswers
          /\ timers' = timers \cup
                {[index |-> currentQuestionIndex, questions |-> quizQuestions,
                  answers |-> newAnswers, chats |-> chatsForClass,
                  active |-> activeChatId]}
    /\ UNCHANGED <<setupVars, selectedClass, chatsForClass, activeChatId,
                   isLoading, generatingTitleChatId, showQuizModal,
                   quizQuestions, currentQuestionIndex, quizStage, quizScore,
                   isQuizModeActive, saved, db, dbq, net, now, ops, titleVars>>

\* the score counting the questions whose correct option is the answer given
\* last, in place of the answer given to that question
ScoreOfLastAnswer(questions, answers) ==
    Cardinality({i \in DOMAIN questions :
                    answers # <<>> /\ questions[i] = answers[Len(answers)]})

\* quizQuestions.forEach((q, i) => { if (q.correctAnswerIndex === newAnswers[i]) score++ })
RECURSIVE Score(_, _)
Score(questions, answers) ==
    IF questions = <<>> THEN 0
    ELSE (IF answers # <<>> /\ Head(questions) = Head(answers) THEN 1 ELSE 0)
         + Score(Tail(questions), IF answers = <<>> THEN <<>> ELSE Tail(answers))

\* the callback of setTimeout (1035-1050), 2500 ms after the answer
AnswerTimer(t) ==
    /\ t \in timers
    /\ timers' = timers \ {t}
    /\ IF t.index < Len(t.questions) - 1
       THEN /\ currentQuestionIndex' = currentQuestionIndex + 1
            /\ selectedAnswer' = NoAnswer
            /\ UNCHANGED <<quizScore, quizStage, chatsForClass, dbq>>
       ELSE LET score == Score(t.questions, t.answers)
                k == [NoClosure EXCEPT !.chats = t.chats, !.active = t.active]
                scoreMessage == ModelMsg(ScoreText(score, Len(t.questions)))
            IN /\ quizScore' = score
               /\ quizStage' = "results"
               /\ chatsForClass' = AddNewMessage(chatsForClass, k, scoreMessage)
               /\ dbq' = IF AddNewMessageApplies(k)
                         THEN Append(dbq, DbOp("put", AddedChat(k, scoreMessage), NoClosure))
                         ELSE dbq
               /\ UNCHANGED <<currentQuestionIndex, selectedAnswer>>
    /\ UNCHANGED <<setupVars, selectedClass, activeChatId, isLoading,
                   generatingTitleChatId, showQuizModal, quizQuestions,
                   userAnswers, isQuizModeActive, saved, db, net, now, ops,
                   titleVars>>

\* handleFinishQuiz without line 1057: the question index is kept
HandleFinishQuizKeepsIndex ==
    /\ QuizDialogShown
    /\ ~showQuizModal
    /\ isQuizModeActive' = FALSE
    /\ quizQuestions' = <<>>
    /\ userAnswers' = <<>>
    /\ selectedAnswer' = NoAnswer
    /\ UNCHANGED <<setupVars, selectedClass, chatsForClass, activeChatId,
                   isLoading, generatingTitleChatId, showQuizModal,
                   currentQuestionIndex, quizStage, quizScore, saved, db, dbq,
                   net, timers, now, ops, titleVars>>

\* handleFinishQuiz (1053): the close button of the quiz dialog, or Finish on
\* the results
HandleFinishQuiz ==
    /\ QuizDialogShown
    /\ ~showQuizModal
    /\ isQuizModeActive' = FALSE
    /\ quizQuestions' = <<>>
    /\ userAnswers' = <<>>
    /\ currentQuestionIndex' = 0
    /\ selectedAnswer' = NoAnswer
    /\ UNCHANGED <<setupVars, selectedClass, chatsForClass, activeChatId,
                   isLoading, generatingTitleChatId, showQuizModal, quizStage,
                   quizScore, saved, db, dbq, net, timers, now, ops, titleVars>>

\* Try Again on the results (1637): handleFinishQuiz, setShowQuizModal(true)
TryAgain ==
    /\ QuizDialogShown
    /\ ~showQuizModal
    /\ quizStage = "results"
    /\ isQuizModeActive' = FALSE
    /\ quizQuestions' = <<>>
    /\ userAnswers' = <<>>
    /\ currentQuestionIndex' = 0
    /\ selectedAnswer' = NoAnswer
    /\ showQuizModal' = TRUE
    /\ UNCHANGED <<setupVars, selectedClass, chatsForClass, activeChatId,
                   isLoading, generatingTitleChatId, quizStage, quizScore,
                   saved, db, dbq, net, timers, now, ops, titleVars>>

\* ================================================================== claims
Last(seq) == seq[Len(seq)]

\* the conversation chatId as the application holds it: the visible list
\* entry, else the stored record
Conversation(chatId) ==
    IF Has(chatsForClass, chatId) THEN Find(chatsForClass, chatId)
    ELSE IF chatId \in DOMAIN db THEN db[chatId] ELSE NoChatRec

\* the last message of conversation chatId in the visible list is newMessage
Landed(chatId, newMessage) ==
    /\ Has(chatsForClass, chatId)
    /\ Find(chatsForClass, chatId).messages # <<>>
    /\ Last(Find(chatsForClass, chatId).messages) = newMessage

\* every conversation of the visible list other than chatId is as it was
OthersKept(chatId) ==
    \A i \in DOMAIN chatsForClass' :
        chatsForClass'[i].id # chatId =>
            \E j \in DOMAIN chatsForClass : chatsForClass[j] = chatsForClass'[i]

\* no delete was asked for conversation chatId: it is stored, no delete of it
\* is pending, and it is listed while its class is the selected one
NotDeleted(k) ==
    /\ k.active \in DOMAIN db
    /\ \A i \in DOMAIN dbq : dbq[i].op = "del" => dbq[i].k.arg # k.active
    /\ selectedClass = k.cls => Has(chatsForClass, k.active)

\* C1: every update of a chat request (chunk, final text, grounded reply,
\* error message) lands on the conversation that was active when
\* handleSendMessage was invoked, also when another conversation or another
\* class is selected by then, and changes no other conversation.
C1_UpdateReachesOriginator ==
    [][\A k \in net :
          (NotDeleted(k) /\ selectedClass # NoClass) =>
            /\ SendFailed(k) => Landed(k.active, ModelMsg(ErrText))' /\ OthersKept(k.active)
            /\ SendGrounded(k) => Landed(k.active, ModelMsg(GroundedText))' /\ OthersKept(k.active)
            /\ SendStreamEnd(k) => Landed(k.active, ModelMsg(k.acc))' /\ OthersKept(k.active)
            /\ \A c \in ChunkVals :
                 SendChunk(k, c) => Landed(k.active, ModelMsg(k.acc \o <<c>>))'
                                    /\ OthersKept(k.active)]_vars

\* conversation chatId ends in a model message with text
EndsInReply(chatId) ==
    LET messages == Conversation(chatId).messages
    IN /\ messages # <<>>
       /\ Last(messages).role = "model"
       /\ Last(messages).text # <<>>

\* C2: when a chat send concludes (isLoading is cleared), the conversation
\* that issued it ends in a non-empty model message, for every backend
\* outcome.
C2_SendLeavesReply ==
    [][\A k \in net :
          (SendFailed(k) \/ SendGrounded(k) \/ SendStreamEnd(k)) =>
              (k.active \in DOMAIN db => EndsInReply(k.active)')]_vars

\* C3: whenever the visible conversation list is non-empty, activeChatId is
\* the id of a conversation in it.
C3_ActivePointerValid ==
    chatsForClass # <<>> => Has(chatsForClass, activeChatId)

\* the conversation of chats created last
MostRecentId(chats) ==
    chats[CHOOSE i \in DOMAIN chats :
            \A j \in DOMAIN chats : chats[j].createdAt <= chats[i].createdAt].id

\* an empty conversation of class cls is being created by the last
\* transaction of the queue q
CreatesEmptyChat(q, cls) ==
    /\ q # <<>>
    /\ Last(q).op = "add"
    /\ Last(q).chat.classNum = cls
    /\ Last(q).chat.messages = <<>>
    /\ Last(q).chat.title = <<>>

\* C4: handleDeleteChat(id) removes the conversation; when it was the active
\* one it makes active the most recent remaining conversation of the list,
\* or creates a new empty one when none remain; when it was not the active
\* one the active pointer is unchanged.
C4_DeleteSelectsNext ==
    [][DeleteChatDone =>
         LET k == Head(dbq).k
             remaining == FilterOut(chatsForClass, k.arg)
         IN /\ chatsForClass' = remaining
            /\ k.arg \notin DOMAIN db'
            /\ IF k.active = k.arg
               THEN IF remaining # <<>>
                    THEN activeChatId' = MostRecentId(remaining)
                    ELSE CreatesEmptyChat(dbq', k.cls)
               ELSE activeChatId' = activeChatId]_vars

\* the list ends in two empty model messages
TwoTrailingPlaceholders(messages) ==
    /\ Len(messages) >= 2
    /\ messages[Len(messages)] = Placeholder
    /\ messages[Len(messages) - 1] = Placeholder

\* C5: every conversation's message list, in memory and as stored, ends in
\* at most one empty model message.
C5_OneTrailingPlaceholder ==
    /\ \A i \in DOMAIN chatsForClass :
          ~TwoTrailingPlaceholders(chatsForClass[i].messages)
    /\ \A id \in DOMAIN db : ~TwoTrailingPlaceholders(db[id].messages)

\* C6: at most one backend request (chat, summarize or quiz) is outstanding
\* against a conversation.
C6_OneRequestPerConversation ==
    \A k1, k2 \in net :
        (k1.active # NoChat /\ k1.active = k2.active) => k1 = k2

IsPrefix(a, b) == Len(a) <= Len(b) /\ SubSeq(b, 1, Len(a)) = a

\* the messages that no pending reply can still replace: all but a trailing
\* model message
Settled(messages) ==
    IF messages # <<>> /\ Last(messages).role = "model"
    THEN SubSeq(messages, 1, Len(messages) - 1)
    ELSE messages

\* C7: a conversation's message list only grows at the end; the only
\* message a step may change in place is a trailing model message.
C7_MessagesOnlyGrow ==
    [][\A i \in DOMAIN chatsForClass : \A j \in DOMAIN chatsForClass' :
          chatsForClass[i].id = chatsForClass'[j].id =>
              IsPrefix(Settled(chatsForClass[i].messages),
                       chatsForClass'[j].messages)]_vars

\* nothing is in progress for conversation chatId: no request of it is in
\* flight and no transaction that concerns it is pending
Quiescent(chatId) ==
    /\ \A k \in net : k.active # chatId
    /\ \A i \in DOMAIN dbq :
          /\ dbq[i].chat.id # chatId
          /\ dbq[i].k.kind \in {"send", "summ", "quiz"} => dbq[i].k.active # chatId
          /\ dbq[i].op = "del" => dbq[i].k.arg # chatId

\* C8: when nothing is in progress for a conversation, its stored record
\* has exactly the message list it has in memory.
C8_StoredEqualsMemory ==
    \A i \in DOMAIN chatsForClass :
        LET c == chatsForClass[i]
        IN (Quiescent(c.id) /\ c.id \in DOMAIN db) =>
               db[c.id].messages = c.messages

\* C9: a loadChats that finds no stored conversation of its class creates
\* exactly one conversation, empty and of that class, and a loadChats that
\* finds one creates none; the created conversation, once added, is stored,
\* listed and active.
C9_EmptyClassGetsOneChat ==
    [][/\ LoadChatsDone =>
            LET cls == Head(dbq).k.cls
            IN IF GetChatsForClass(db, cls) = <<>>
               THEN /\ Len(dbq') = Len(dbq)
                    /\ SubSeq(dbq', 1, Len(dbq') - 1) = Tail(dbq)
                    /\ CreatesEmptyChat(dbq', cls)
               ELSE dbq' = Tail(dbq)
       /\ (NewChatDone /\ Head(dbq).k.kind = "load") =>
            LET newChat == Head(dbq).chat
            IN /\ newChat.id \notin DOMAIN db
               /\ newChat.id \in DOMAIN db' /\ db'[newChat.id] = newChat
               /\ Cardinality(DOMAIN db') = Cardinality(DOMAIN db) + 1
               /\ Len(chatsForClass') = Len(chatsForClass) + 1
               /\ chatsForClass'[1] = newChat
               /\ newChat.messages = <<>> /\ newChat.title = <<>>
               /\ newChat.classNum = Head(dbq).k.cls
               /\ activeChatId' = newChat.id]_vars

\* the class selected first had no stored conversation: its one automatic
\* conversation is stored, listed and active
C9_Witness ==
    /\ ops = 1
    /\ now = 1
    /\ selectedClass # NoClass
    /\ dbq = <<>>
    /\ Len(chatsForClass) = 1
    /\ chatsForClass[1].messages = <<>>
    /\ chatsForClass[1].classNum = selectedClass
    /\ activeChatId = chatsForClass[1].id
    /\ DOMAIN db = {activeChatId}

C11_FirstExchangeRequestsTitle ==
    [][\A k \in net :
          ( /\ SendGrounded(k) \/ SendStreamEnd(k)
            /\ k.cls # NoClass
            /\ Has(k.chats, k.active)
            /\ Find(k.chats, k.active).messages = <<>>
            /\ Find(k.chats, k.active).title = <<>>
            /\ Has(chatsForClass', k.active)
            /\ Len(Find(chatsForClass', k.active).messages) = 2
            /\ Find(chatsForClass', k.active).messages[1].role = "user"
            /\ EndsInReply(k.active)' )
          => /\ Len(titleReqs') = Len(titleReqs) + 1
             /\ Last(titleReqs').id = k.active]_vars

ClassOfKey(classKey) == IF classKey = <<"6">> THEN 6 ELSE 7

\* the createdAt values the claim allows for a legacy id at time t: the
\* number the id spells; the current time when the id does not start with a
\* digit; either of the two readings when digits are followed by other text
CreatedAtAllowed(id, t) ==
    IF id = IdZero THEN {0}
    ELSE IF id = IdWord THEN {t}
    ELSE IF id = IdMixed THEN {2, t}
    ELSE {id}

\* a run of the migration that found legacy data and an empty store and
\* ended by removing the legacy data
MigrationSucceeds ==
    /\ SetupDone
    /\ legacy.kind = "json"
    /\ DOMAIN db = {}
    /\ legacy' = NoBlob

C14_MigrationNeverBlocksStartup ==
    [][SetupDone =>
          /\ dbReady' /\ setup' = "ready"
          /\ (legacy.kind = "json" /\ DOMAIN db = {} /\ legacy' # NoBlob) =>
                /\ legacy' = legacy
                /\ legacyActiveIds' = legacyActiveIds
                /\ db' = db]_vars

\* the number of questions of the quiz on display answered correctly
CorrectCount(questions, answers) ==
    Cardinality({i \in DOMAIN questions :
                    i \in DOMAIN answers /\ answers[i] = questions[i]})

\* C15: when the feedback delay of the last answer elapses, the score set is
\* the number of questions of that quiz whose recorded answer is the correct
\* option (no partial credit), and lies between 0 and the number of questions.
C15_ScoreCountsCorrectAnswers ==
    [][\A t \in timers :
          (AnswerTimer(t) /\ t.index >= Len(t.questions) - 1) =>
              /\ quizStage' = "results"
              /\ quizScore' = CorrectCount(t.questions, t.answers)
              /\ quizScore' >= 0
              /\ quizScore' <= Len(t.questions)]_vars

\* a quiz of two questions has ended with one right and one wrong answer
C15_Witness ==
    /\ isQuizModeActive
    /\ quizStage = "results"
    /\ Len(quizQuestions) = 2
    /\ userAnswers = <<quizQuestions[1], 1 - quizQuestions[2]>>
    /\ quizScore = 1
    /\ timers = {}

\* every question of the quiz on display has a recorded answer
AllAnswered ==
    /\ Len(userAnswers) = Len(quizQuestions)
    /\ \A i \in DOMAIN userAnswers : userAnswers[i] # NoAnswer

\* C16: while a quiz is on display its index moves only from i to i + 1, and
\* only when question i has been answered and its feedback delay elapses; a
\* question takes an answer only while it has none; Results is entered only
\* from the last question, with every question answered.
C16_QuestionsInOrder ==
    [][(isQuizModeActive /\ isQuizModeActive') =>
          /\ currentQuestionIndex' # currentQuestionIndex =>
                /\ currentQuestionIndex' = currentQuestionIndex + 1
                /\ currentQuestionIndex' < Len(quizQuestions)
                /\ quizStage = "question"
                /\ selectedAnswer # NoAnswer
                /\ userAnswers[currentQuestionIndex + 1] = selectedAnswer
                /\ selectedAnswer' = NoAnswer
          /\ \A i \in Options :
                HandleAnswerSelect(i) =>
                    /\ userAnswers[currentQuestionIndex + 1] = NoAnswer
                    /\ userAnswers' = [userAnswers EXCEPT ![currentQuestionIndex + 1] = i]
          /\ (quizStage = "question" /\ quizStage' = "results") =>
                /\ currentQuestionIndex = Len(quizQuestions) - 1
                /\ AllAnswered
                /\ AllAnswered']_vars


\* C17: when handleStartQuiz, invoked on a conversation with messages M,
\* succeeds, the conversation holds M, the user's quiz request and the
\* acknowledgment, in memory and in the record handed to the store, and the
\* quiz is at question 0 in the asking stage with no answer set.
C17_QuizStartAppendsExchange ==
    [][\A k \in net : \A quiz \in Quizzes :
          (QuizOk(k, quiz) /\ Has(k.chats, k.active) /\ NotDeleted(k)
              /\ selectedClass = k.cls) =>
             LET expected == Find(k.chats, k.active).messages
                               \o <<UserMsg(QuizAskText), ModelMsg(QuizAckText)>>
             IN /\ Find(chatsForClass', k.active).messages = expected
                /\ dbq' # <<>>
                /\ Last(dbq').op = "put"
                /\ Last(dbq').chat.id = k.active
                /\ Last(dbq').chat.messages = expected
                /\ isQuizModeActive' /\ quizStage' = "question"
                /\ currentQuestionIndex' = 0
                /\ quizQuestions' = quiz
                /\ userAnswers' = [i \in 1..Len(quiz) |-> NoAnswer]]_vars


\* C18: when quiz generation fails, the placeholder that handleStartQuiz
\* appended to its conversation is replaced by the error message, and the
\* quiz stays idle: quiz mode is off and no quiz state is set.
C18_QuizFailureStaysIdle ==
    [][\A k \in net :
          (QuizFailed(k) /\ Has(k.chats, k.active) /\ NotDeleted(k)) =>
              /\ Conversation(k.active).messages # <<>>
              /\ Last(Conversation(k.active).messages) = Placeholder
              /\ Conversation(k.active)'.messages =
                    [Conversation(k.active).messages
                        EXCEPT ![Len(Conversation(k.active).messages)] =
                                   ModelMsg(QuizFailText)]
              /\ ~isQuizModeActive'
              /\ UNCHANGED quizVars]_vars


\* a continuation that ends by clearing isLoading is pending: a request in
\* flight, or a write that a send, a summarize or a quiz start awaits
ClearPending ==
    \/ net # {}
    \/ \E i \in DOMAIN dbq : dbq[i].k.kind \in {"send", "summ", "quiz"}

\* C19: isLoading is set only while something that will clear it is pending,
\* also after a storage write of the operation has failed; a state with
\* isLoading set and nothing pending keeps it set forever (every operation
\* that could clear it is guarded by isLoading being clear).
C19_LoadingCleared == isLoading => ClearPending


\* C20: the chunks of one streaming request are applied in receipt order:
\* after each chunk the pending model message of the request's conversation is
\* the concatenation of the chunks received so far, and when the stream ends
\* the text handed to the store is the concatenation of all of them (one
\* chunk at least).
C20_ChunksAppliedInOrder ==
    [][\A k \in net :
          NotDeleted(k) =>
            /\ \A c \in ChunkVals :
                  SendChunk(k, c) =>
                      /\ Last(Conversation(k.active).messages).role = "model"
                      /\ Last(Conversation(k.active).messages).text = k.acc
                      /\ Last(Conversation(k.active)'.messages)
                            = ModelMsg(k.acc \o <<c>>)
            /\ (SendStreamEnd(k) /\ k.acc # <<>>) =>
                  /\ Last(Conversation(k.active)'.messages) = ModelMsg(k.acc)
                  /\ dbq' # <<>>
                  /\ Last(dbq').op = "put"
                  /\ Last(dbq').chat.id = k.active
                  /\ Last(Last(dbq').chat.messages) = ModelMsg(k.acc)]_vars

\* C21: when /api/summarize answers a request with success, the placeholder
\* that handleSummarizeChat appended is replaced by a model message made of
\* the fixed heading followed by the text the endpoint produced; the apology
\* message replaces it only when the request failed.
C21_SummaryReplacesPlaceholder ==
    [][\A k \in net : \A r \in SummResponses :
          (SummReply(k, r) /\ NotDeleted(k) /\ selectedClass = k.cls) =>
              /\ r.ok => Landed(k.active, ModelMsg(SummaryHeading \o r.body))'
              /\ Landed(k.active, ModelMsg(SummaryFailText))' => ~r.ok]_vars

\* what replacing the last message of a list by newMessage is to give: the
\* list with its trailing model message replaced, or with newMessage added
\* when it ends in a user message or is empty
ReplacedOrAppended(messages, newMessage) ==
    IF messages # <<>> /\ Last(messages).role = "model"
    THEN [messages EXCEPT ![Len(messages)] = newMessage]
    ELSE Append(messages, newMessage)

\* the step applies updateLastMessage(newMessage) to the listed conversation
\* chatId as the claim describes it
ReplacesLast(chatId, newMessage) ==
    Find(chatsForClass', chatId).messages =
        ReplacedOrAppended(Find(chatsForClass, chatId).messages, newMessage)

\* C22: updateLastMessage on a listed conversation replaces the last message
\* in place when it has role model and appends the new message when the last
\* message has role user or the list is empty; it never overwrites a user
\* message.
C22_ReplaceLastKeepsUserMessages ==
    [][\A k \in net :
          Has(chatsForClass, k.active) =>
            /\ SendFailed(k) => ReplacesLast(k.active, ModelMsg(ErrText))
            /\ SendGrounded(k) => ReplacesLast(k.active, ModelMsg(GroundedText))
            /\ SendStreamEnd(k) => ReplacesLast(k.active, ModelMsg(k.acc))
            /\ \A c \in ChunkVals :
                  SendChunk(k, c) => ReplacesLast(k.active, ModelMsg(k.acc \o <<c>>))
            /\ \A r \in SummResponses :
                  SummReply(k, r) => ReplacesLast(k.active, SummMessage(r))
            /\ QuizFailed(k) => ReplacesLast(k.active, ModelMsg(QuizFailText))
            /\ \A quiz \in Quizzes :
                  QuizOk(k, quiz) => ReplacesLast(k.active, ModelMsg(QuizAckText))]_vars

\* the step appends newMessage to the listed conversation chatId, in memory
\* and in the record it hands to the store
Appends(chatId, newMessage) ==
    LET expected == Append(Find(chatsForClass, chatId).messages, newMessage)
    IN /\ Find(chatsForClass', chatId).messages = expected
       /\ dbq' # <<>>
       /\ Last(dbq').op = "put"
       /\ Last(dbq').chat.id = chatId
       /\ Last(dbq').chat.messages = expected

\* C23: addNewMessage on the active conversation with messages M yields M
\* followed by the new message, in memory and in the record handed to the
\* store; the second append of handleStartQuiz keeps the first (M, request,
\* placeholder).
C23_AppendsAccumulate ==
    [][/\ (HandleSummarizeChat /\ Has(chatsForClass, activeChatId)) =>
              Appends(activeChatId, Placeholder)
       /\ (HandleStartQuiz /\ Has(chatsForClass, activeChatId)) =>
              Appends(activeChatId, UserMsg(QuizAskText))
       /\ (QuizPut1Done /\ Has(chatsForClass, Head(dbq).k.active)) =>
              /\ Appends(Head(dbq).k.active, Placeholder)
              /\ Find(chatsForClass', Head(dbq).k.active).messages =
                    Find(Head(dbq).k.chats, Head(dbq).k.active).messages
                       \o <<UserMsg(QuizAskText), Placeholder>>]_vars

\* the stored conversations of class cls
StoredOfClass(cls) == {i \in DOMAIN db : db[i].classNum = cls}

\* C24: a load for a class that has stored conversations creates no
\* conversation, lists them, and makes active the remembered conversation id
\* of the class when it names one of them, and otherwise the one with the
\* greatest creation time.
C24_LoadSelectsRemembered ==
    [][LoadChatsDone =>
          LET cls == Head(dbq).k.cls
              stored == StoredOfClass(cls)
          IN stored # {} =>
                /\ dbq' = Tail(dbq)
                /\ db' = db
                /\ {chatsForClass'[i].id : i \in DOMAIN chatsForClass'} = stored
                /\ IF saved[cls] \in stored
                   THEN activeChatId' = saved[cls]
                   ELSE /\ activeChatId' \in stored
                        /\ \A j \in stored :
                              db[j].createdAt <= db[activeChatId'].createdAt]_vars

\* class 6 was selected with two stored conversations and nothing remembered
\* for it: the listed conversations are the stored ones and the one created
\* last is active
C24_Witness ==
    /\ selectedClass = 6
    /\ dbq = <<>>
    /\ saved[6] = NoChat
    /\ Len(chatsForClass) = 2
    /\ StoredOfClass(6) = {1, 2}
    /\ activeChatId = 2

\* C25: the history sent with a chat request is the list of messages the
\* conversation held before the send (the record written for the send less
\* the new user message and the placeholder), in order, and holds no empty
\* model message.
C25_HistoryIsPriorMessages ==
    [][SendPutDone =>
          LET history == HistoryForApi(Head(dbq).k)
              written == Head(dbq).chat.messages
          IN /\ Len(history) = Len(written) - 2
             /\ \A i \in DOMAIN history :
                   /\ history[i] = [role |-> written[i].role, text |-> written[i].text]
                   /\ history[i] # Placeholder
             /\ written[Len(written) - 1] = UserMsg(AskText)
             /\ written[Len(written)] = Placeholder]_vars

\* C26: after a send that failed the title condition is not evaluated and no
\* title is requested; the condition is evaluated only after a send that
\* succeeded.
C26_NoTitleAfterFailedSend ==
    [][\A k \in net :
          SendFailed(k) =>
              /\ titleReqs' = titleReqs
              /\ generatingTitleChatId' = generatingTitleChatId
              /\ "failed" \notin titleChecks']_vars

\* every question of the quiz has its fields: there is a question at least,
\* and each names one of its options as the correct one
WellFormed(quiz) ==
    /\ quiz # <<>>
    /\ \A i \in DOMAIN quiz : quiz[i] \in Options

\* C27: a quiz response with no question, or with a question that misses a
\* field, is handled as a failure: quiz mode is not entered, no quiz state is
\* set, and the placeholder of the conversation becomes the error message.
C27_MalformedQuizIsFailure ==
    [][\A k \in net : \A quiz \in QuizResponses :
          (QuizReply(k, quiz) /\ ~WellFormed(quiz)) =>
              /\ isQuizModeActive' = isQuizModeActive
              /\ UNCHANGED quizVars
              /\ (Has(chatsForClass, k.active)
                    /\ Last(Find(chatsForClass, k.active).messages) = Placeholder)
                 => Landed(k.active, ModelMsg(QuizFailText))']_vars

\* C28: no chat request carries both an image and the web-search flag set:
\* the flag sent is true only when no image is attached (and then it is the
\* search toggle), and the reply is handled as one grounded JSON object
\* exactly when the flag was sent as true, as a stream otherwise.
C28_SearchExcludesImage ==
    [][\A k \in net :
          k.kind = "send" =>
             LET req == ChatRequest(k)
             IN /\ ~(req.image /\ req.isGoogleSearchEnabled)
                /\ req.isGoogleSearchEnabled = (k.search /\ ~k.image)
                /\ SendGrounded(k) => req.isGoogleSearchEnabled
                /\ SendStreamEnd(k) => ~req.isGoogleSearchEnabled
                /\ \A c \in ChunkVals :
                      SendChunk(k, c) => ~req.isGoogleSearchEnabled]_vars

\* a request sent with an image attached while the search toggle was on is in
\* flight with the flag false, and a chunk of its streamed reply has arrived
C28_Witness ==
    \E k \in net :
        /\ k.kind = "send"
        /\ k.image /\ k.search
        /\ ~ChatRequest(k).isGoogleSearchEnabled
        /\ k.acc # <<>>

\* C29: after initDB has failed the application goes on without persistence:
\* no user action raises an unhandled fault, and a selected class with nothing
\* pending has a conversation that can be used.
C29_DegradedModeUsable ==
    setup = "failed" =>
        /\ ~unhandled
        /\ (selectedClass # NoClass /\ dbq = <<>>) =>
              Has(chatsForClass, activeChatId)

\* C30: getChatsForClass(n) returns exactly the stored conversations whose
\* classNum is n, each once and as stored, ordered by creation time
\* descending, whatever adds, updates and deletes the store has seen.
C30_ListByClassSorted ==
    \A n \in Classes :
        LET listed == GetChatsForClass(db, n)
        IN /\ Len(listed) = Cardinality(StoredOfClass(n))
           /\ \A i \in DOMAIN listed :
                 /\ listed[i].id \in StoredOfClass(n)
                 /\ listed[i] = db[listed[i].id]
           /\ \A i, j \in DOMAIN listed :
                 i < j => /\ listed[i].id # listed[j].id
                          /\ listed[i].createdAt >= listed[j].createdAt

\* the first stored conversation was deleted and a conversation was added:
\* class 6 has two stored conversations, listed newest first
C30_Witness ==
    /\ 1 \notin DOMAIN db
    /\ Cardinality(StoredOfClass(6)) = 2
    /\ Len(GetChatsForClass(db, 6)) = 2
    /\ GetChatsForClass(db, 6)[1].createdAt > GetChatsForClass(db, 6)[2].createdAt

\* handleSelectChat(chatId) has run for the class cls its render holds
Selected(cls, chatId) ==
    /\ activeChatId' = chatId
    /\ saved'[cls] = chatId
    /\ ~isQuizModeActive'
    /\ quizQuestions' = <<>>

\* C31: handleSelectChat(id) makes id the active conversation, records id as
\* the remembered conversation of the class, and exits quiz mode (quiz
\* inactive, questions discarded), whatever the state of the quiz: on a click
\* on a history item, and when handleNewChat and handleDeleteChat call it.
C31_SelectExitsQuiz ==
    [][/\ \A i \in DOMAIN chatsForClass :
            HandleSelectChat(chatsForClass[i].id) =>
                Selected(selectedClass, chatsForClass[i].id)
       /\ NewChatDone => Selected(Head(dbq).k.cls, Head(dbq).chat.id)
       /\ (DeleteChatDone /\ Head(dbq).k.active = Head(dbq).k.arg
                          /\ RemainingChats(Head(dbq).k) # <<>>) =>
             Selected(Head(dbq).k.cls, RemainingChats(Head(dbq).k)[1].id)]_vars

\* handleSelectChat has run while the quiz dialog showed a quiz: the answers
\* outlive the quiz, which handleFinishQuiz would have cleared
C31_Witness ==
    /\ ~isQuizModeActive
    /\ quizQuestions = <<>>
    /\ userAnswers # <<>>
    /\ selectedClass # NoClass
    /\ activeChatId # NoChat
    /\ saved[selectedClass] = activeChatId

\* the quiz is idle: not shown, and nothing of a quiz is held
QuizIdle ==
    /\ ~isQuizModeActive
    /\ quizQuestions = <<>>
    /\ userAnswers = <<>>
    /\ currentQuestionIndex = 0
    /\ selectedAnswer = NoAnswer

\* C32: handleFinishQuiz, from any state of the quiz, returns the quiz to
\* idle (quiz mode inactive, questions and answers empty, index 0, no selected
\* answer) and changes no message of any conversation, in memory or stored.
C32_FinishReturnsToIdle ==
    [][(HandleFinishQuiz \/ TryAgain) =>
          /\ QuizIdle'
          /\ chatsForClass' = chatsForClass
          /\ db' = db
          /\ dbq' = dbq]_vars

\* the quiz was left by handleFinishQuiz after the second question was
\* answered, within the feedback delay
C32_Witness ==
    /\ QuizIdle
    /\ ~showQuizModal
    /\ \E t \in timers : t.index = 1

\* the timer t is not of the quiz on the screen: the quiz was left, or the
\* question t was started for is not answered in the quiz shown
QuizWasLeft(t) ==
    \/ ~isQuizModeActive
    \/ t.index + 1 > Len(userAnswers)
    \/ userAnswers[t.index + 1] = NoAnswer

\* C33: once the quiz was left (finish or close) within the feedback delay of
\* an answer, the pending timer has no effect: it does not advance the
\* question index, does not enter the results, appends no results message to
\* any conversation, and does not alter a quiz started afterwards.
C33_TimerOfLeftQuizIsInert ==
    [][\A t \in timers :
          (AnswerTimer(t) /\ QuizWasLeft(t)) =>
              UNCHANGED <<currentQuestionIndex, selectedAnswer, quizStage,
                          quizScore, chatsForClass, dbq>>]_vars

\* conversation id was deleted: the id was given out by handleNewChat (ids
\* are the ticks of Date.now()), no addChat of it is pending and the store
\* does not hold it
Deleted(id) ==
    /\ id \notin DOMAIN db
    /\ \A i \in DOMAIN dbq : dbq[i].op = "add" => dbq[i].chat.id # id

\* C34: after handleDeleteChat(id) has removed a conversation from the store,
\* no record with that id is written to the store again: a streamed update,
\* a final update or a title write-back still in flight for the conversation
\* does not re-create it.
C34_DeletedStaysDeleted ==
    [][\A id \in 1..now : Deleted(id) => id \notin DOMAIN db']_vars

\* C35: a conversation deleted by handleDeleteChat never reappears in the
\* visible list, and a delete discards no in-memory change made to another
\* conversation while its storage write was pending: every other conversation
\* of the list is kept as it is when the delete completes.
C35_DeleteAppliesToCurrentList ==
    [][/\ DeleteChatDone =>
            \A i \in DOMAIN chatsForClass :
                chatsForClass[i].id # Head(dbq).k.arg =>
                    \E j \in DOMAIN chatsForClass' :
                        chatsForClass'[j] = chatsForClass[i]
       /\ \A id \in 1..now :
            (Deleted(id) /\ ~Has(chatsForClass, id)) =>
                ~Has(chatsForClass', id)]_vars

\* C36: in every reachable state every conversation of the visible list has
\* classNum equal to the selected class, and the list is empty when no class
\* is selected, also when the class is changed while a load or an automatic
\* creation of a conversation for the previous class is pending.
C36_ListIsOfSelectedClass ==
    /\ selectedClass = NoClass => chatsForClass = <<>>
    /\ \A i \in DOMAIN chatsForClass :
          chatsForClass[i].classNum = selectedClass

\* the conversation holds a message handleStartQuiz wrote: the request (987)
\* or the acknowledgement that replaced the placeholder (1010)
HoldsQuizRequest(chat) ==
    \E m \in DOMAIN chat.messages :
        \/ chat.messages[m] = UserMsg(QuizAskText)
        \/ chat.messages[m] = ModelMsg(QuizAckText)

\* the conversations in which a quiz was started
QuizChats == {id \in 1..now : HoldsQuizRequest(Conversation(id))}

\* the timer t belongs to the last question of the quiz on the screen
LastAnswerTimer(t) ==
    /\ ~QuizWasLeft(t)
    /\ t.questions = quizQuestions
    /\ t.index = Len(t.questions) - 1

\* C37: the results message of a quiz is appended exactly once, and to the
\* conversation in which the quiz was started (the one holding its 'Start a
\* quiz on' request), also when the active conversation or class changed
\* between the start of the quiz request and the last answer.
C37_ResultsGoToQuizConversation ==
    [][\A t \in timers :
          (AnswerTimer(t) /\ LastAnswerTimer(t) /\ QuizChats # {}) =>
              /\ Len(dbq') = Len(dbq) + 1
              /\ Last(dbq').op = "put"
              /\ Last(dbq').chat.id \in QuizChats
              /\ Last(Last(dbq').chat.messages).text =
                    ScoreText(quizScore', Len(t.questions))
              /\ \A i \in DOMAIN chatsForClass' :
                    chatsForClass'[i].id \notin QuizChats =>
                        \E j \in DOMAIN chatsForClass :
                            chatsForClass[j] = chatsForClass'[i]]_vars

SelectsInClass(a) ==
    \/ /\ selectedClass = a
       /\ \E i \in DOMAIN chatsForClass : HandleSelectChat(chatsForClass[i].id)
    \/ NewChatDone /\ Head(dbq).chat.classNum = a
    \/ DeleteChatDone /\ Head(dbq).k.cls = a

Next ==
    \/ SetupDone
    \/ \E n \in Classes : SelectClass(n)
    \/ ChangeClass
    \/ LoadChatsDone
    \/ HandleNewChat
    \/ NewChatDone
    \/ \E i \in DOMAIN chatsForClass : HandleSelectChat(chatsForClass[i].id)
    \/ \E i \in DOMAIN chatsForClass : HandleDeleteChat(chatsForClass[i].id)
    \/ DeleteChatDone
    \/ PutDone
    \/ \E searchOn \in BOOLEAN : HandleSendMessage(searchOn, FALSE)
    \/ SendPutDone
    \/ \E k \in net : SendFailed(k)
    \/ \E k \in net : SendGrounded(k)
    \/ \E k \in net, c \in ChunkVals : SendChunk(k, c)
    \/ \E k \in net : SendStreamEnd(k)
    \/ HandleSummarizeChat
    \/ SummPutDone
    \/ \E k \in net, r \in SummResponses : SummReply(k, r)
    \/ OpenQuizModal
    \/ CancelQuizModal
    \/ HandleStartQuiz
    \/ QuizPut1Done
    \/ QuizPut2Done
    \/ \E k \in net, quiz \in QuizResponses : QuizReply(k, quiz)
    \/ \E k \in net : QuizFailed(k)
    \/ \E i \in Options : HandleAnswerSelect(i)
    \/ \E t \in timers : AnswerTimer(t)
    \/ HandleFinishQuiz
    \/ TryAgain

Spec == Init /\ [][Next]_vars

SpecStored == InitStored /\ [][Next]_vars

\* the loads of the application around the migration
NextMigrate ==
    \/ SetupDone
    \/ Reload
    \/ \E n \in Classes : SelectClass(n)
    \/ ChangeClass
    \/ LoadChatsDone
    \/ NewChatDone
    \/ \E i \in DOMAIN chatsForClass : HandleSelectChat(chatsForClass[i].id)

SpecMigrate == InitLegacy /\ [][NextMigrate]_vars

\* the application with storage writes that may fail
NextFailing ==
    \/ Next
    \/ PutFailed

SpecFailing == Init /\ [][NextFailing]_vars

\* the application with a store that may fail to open
NextDegraded ==
    \/ Next
    \/ SetupFailed
    \/ HandleNewChatNoDb

SpecDegraded == Init /\ [][NextDegraded]_vars

\* the application with sends that carry an image
NextImage ==
    \/ Next
    \/ \E searchOn \in BOOLEAN : HandleSendMessage(searchOn, TRUE)

SpecImage == Init /\ [][NextImage]_vars

\* the program with the title request issued after a first exchange
NextTitle ==
    \/ Next
    \/ \E k \in net : SendConcludeTitled(k)
    \/ \E k \in net, title \in Titles : TitleReply(k, title)
    \/ TitlePutDone

SpecTitle == Init /\ [][NextTitle]_vars

====
